---- MODULE Spec2Model ----
(***************************************************************************)
(* A model of results.py: the Results store of ReportUnit objects, the     *)
(* ingestion of one partition's results (addRecord), the lookup            *)
(* (getReportUnit), and the writing of the per-pair tables and of the      *)
(* train/test summaries (saveResults, createSummary).                      *)
(*                                                                         *)
(* Python values are modelled as follows.                                  *)
(*   - a str on which the code works character by character (a dataset    *)
(*     name, which is strip()ped; a partition key, which comes from str()  *)
(*     and is sorted) is a sequence of one-character strings; a str that   *)
(*     is only compared and concatenated is a TLA+ string;                 *)
(*   - an OrderedDict, or a dict that the code iterates, is a sequence of  *)
(*     <<key, value>> pairs with distinct keys, in insertion order;        *)
(*   - a dict that the code only indexes is a function;                    *)
(*   - a cell value is a record [kind, val, items]: an int, NaN, or a      *)
(*     mapping (dict or OrderedDict) with its items;                       *)
(*   - a float statistic is the exact rational (num/den)^(1/root).         *)
(***************************************************************************)
EXTENDS Integers, Sequences, FiniteSets, TLC

VARIABLES
    reports_,   \* Results.reports_: the list of ReportUnit objects
    last,       \* the last call: its name, arguments, the exception it raised
    disk,       \* what saveResults wrote into its experiment folder
    calls,      \* number of calls made so far
    firstUnit,  \* history: (dataset, configuration) -> unit returned at first lookup
    firstSeen,  \* history: the pairs in the order they were first looked up
    failed      \* history: whether an addRecord call raised, and the units before the last that did

vars == <<reports_, last, disk, calls, firstUnit, firstSeen, failed>>

-----------------------------------------------------------------------------
(* Python values *)

IntValue(n) == [kind |-> "int", val |-> n, items |-> <<>>]
NaN == [kind |-> "nan", val |-> 0, items |-> <<>>]
Dict(items) == [kind |-> "dict", val |-> 0, items |-> items]
OrderedDictValue(items) == [kind |-> "OrderedDict", val |-> 0, items |-> items]

IntPartition(n) == [kind |-> "int", val |-> n, chars |-> <<>>]
StrPartition(s) == [kind |-> "str", val |-> 0, chars |-> s]

Min2(a, b) == IF a < b THEN a ELSE b
Max2(a, b) == IF a < b THEN b ELSE a

-----------------------------------------------------------------------------
(* str: code points, str(), strip(), comparison, sorted() *)

Ord(c) ==
    CASE c = "\t" -> 9 [] c = "\n" -> 10 [] c = " " -> 32 [] c = "-" -> 45
      [] c = "0" -> 48 [] c = "1" -> 49 [] c = "2" -> 50 [] c = "3" -> 51
      [] c = "4" -> 52 [] c = "5" -> 53 [] c = "6" -> 54 [] c = "7" -> 55
      [] c = "8" -> 56 [] c = "9" -> 57 [] c = "i" -> 105 [] c = "w" -> 119

DigitChars == <<"0", "1", "2", "3", "4", "5", "6", "7", "8", "9">>

RECURSIVE DecimalDigits(_)
DecimalDigits(n) ==
    IF n < 10 THEN <<DigitChars[n + 1]>>
    ELSE DecimalDigits(n \div 10) \o <<DigitChars[(n % 10) + 1]>>

\* str(partition): a str is itself, an int is its decimal digits
str(p) ==
    IF p.kind = "str" THEN p.chars
    ELSE IF p.val < 0 THEN <<"-">> \o DecimalDigits(0 - p.val)
    ELSE DecimalDigits(p.val)

IsSpace(c) == c \in {" ", "\t", "\n"}

RECURSIVE lstrip(_)
lstrip(s) == IF s # <<>> /\ IsSpace(Head(s)) THEN lstrip(Tail(s)) ELSE s

RECURSIVE rstrip(_)
rstrip(s) ==
    IF s # <<>> /\ IsSpace(s[Len(s)]) THEN rstrip(SubSeq(s, 1, Len(s) - 1)) ELSE s

strip(s) == rstrip(lstrip(s))

\* the characters of a str, joined into a TLA+ string
RECURSIVE Join(_)
Join(s) == IF s = <<>> THEN "" ELSE Head(s) \o Join(Tail(s))

\* a < b for two str: lexicographic by code point
RECURSIVE StrLess(_, _)
StrLess(a, b) ==
    IF b = <<>> THEN FALSE
    ELSE IF a = <<>> THEN TRUE
    ELSE IF Head(a) = Head(b) THEN StrLess(Tail(a), Tail(b))
    ELSE Ord(Head(a)) < Ord(Head(b))

\* sorted(d.items()) for a dict with str keys: its keys in ascending order
RECURSIVE sorted(_)
sorted(keys) ==
    IF keys = {} THEN <<>>
    ELSE LET m == CHOOSE k \in keys : \A o \in keys \ {k} : StrLess(k, o)
         IN  <<m>> \o sorted(keys \ {m})

-----------------------------------------------------------------------------
(* OrderedDict *)

Keys(od) == [i \in 1..Len(od) |-> od[i][1]]
HasKey(od, k) == \E i \in 1..Len(od) : od[i][1] = k

\* od[k] = v: an existing key keeps its position and takes the new value,
\* a new key is appended
SetItem(od, k, v) ==
    IF HasKey(od, k)
    THEN [i \in 1..Len(od) |-> IF od[i][1] = k THEN <<k, v>> ELSE od[i]]
    ELSE Append(od, <<k, v>>)

RECURSIVE SetItems(_, _)
SetItems(od, items) ==
    IF Len(items) = 0 THEN od
    ELSE SetItems(SetItem(od, items[1][1], items[1][2]),
                  SubSeq(items, 2, Len(items)))

\* zip(a, b): pairs up to the shorter length
zip(a, b) == [i \in 1..Min2(Len(a), Len(b)) |-> <<a[i], b[i]>>]

-----------------------------------------------------------------------------
(* ReportUnit and Results.getReportUnit *)

ReportUnit(dataset_name, configuration_name) ==
    [dataset_ |-> dataset_name, configuration_ |-> configuration_name,
     df_ |-> <<>>, models_ |-> <<>>, predictions_ |-> <<>>]

\* a lookup that forgets to compare the configuration
MatchesDatasetOnly(rs, dataset_name, configuration_name) ==
    {i \in 1..Len(rs) : rs[i].dataset_ = dataset_name}

\* the units a lookup matches: dataset and configuration both equal
Matches(rs, dataset_name, configuration_name) ==
    {i \in 1..Len(rs) : /\ rs[i].dataset_ = dataset_name
                        /\ rs[i].configuration_ = configuration_name}

\* the list after the call, and the position of the unit returned
getReportUnit(rs, dataset_name, configuration_name) ==
    LET hits == Matches(rs, dataset_name, configuration_name) IN
    IF hits # {}
    THEN [reports |-> rs, ru |-> CHOOSE i \in hits : \A j \in hits : i <= j]
    ELSE [reports |-> Append(rs, ReportUnit(dataset_name, configuration_name)),
          ru |-> Len(rs) + 1]

-----------------------------------------------------------------------------
(* Results.addRecord *)

\* for p_name, p_value in best_params.items(): a value of type dict is
\* replaced by its items, any other value is stored under its name
RECURSIVE AddParams(_, _)
AddParams(row, best_params) ==
    IF Len(best_params) = 0 THEN row
    ELSE LET p_name == best_params[1][1]
             p_value == best_params[1][2]
         IN  AddParams(IF p_value.kind = "dict"
                       THEN SetItems(row, p_value.items)
                       ELSE SetItem(row, p_name, p_value),
                       SubSeq(best_params, 2, Len(best_params)))

\* for (tm_name, tm_value), (ts_name, ts_value) in zip(train, test)
RECURSIVE AddMetrics(_, _)
AddMetrics(row, pairs) ==
    IF Len(pairs) = 0 THEN row
    ELSE LET tm == pairs[1][1]
             ts == pairs[1][2]
         IN  AddMetrics(SetItem(SetItem(row, tm[1], tm[2]), ts[1], ts[2]),
                        SubSeq(pairs, 2, Len(pairs)))

dataframe_row(best_params, metrics) ==
    AddMetrics(AddParams(<<>>, best_params), zip(metrics.train, metrics.test))

\* d[k] = v for a dict held as a function
DictSet(d, k, v) == (k :> v) @@ d

\* a store that keeps the model a partition already has
StoreRecordKeepModel(ru, partition, row, best_model, predictions) ==
    [ru EXCEPT !.df_ = DictSet(@, str(partition), row),
               !.models_ = DictSet(@, str(partition),
                                   IF str(partition) \in DOMAIN ru.models_
                                   THEN ru.models_[str(partition)] ELSE best_model),
               !.predictions_ = DictSet(@, str(partition), predictions)]

StoreRecord(ru, partition, row, best_model, predictions) ==
    [ru EXCEPT !.df_ = DictSet(@, str(partition), row),
               !.models_ = DictSet(@, str(partition), best_model),
               !.predictions_ = DictSet(@, str(partition), predictions)]

\* history of lookups
Remember(pair, ru) ==
    /\ firstUnit' = IF pair \in DOMAIN firstUnit THEN firstUnit
                    ELSE (pair :> ru) @@ firstUnit
    /\ firstSeen' = IF \E i \in 1..Len(firstSeen) : firstSeen[i] = pair
                    THEN firstSeen ELSE Append(firstSeen, pair)

AddRecord(partition, best_params, best_model, configuration, metrics, predictions) ==
    LET args == [partition |-> partition, best_params |-> best_params,
                 best_model |-> best_model, configuration |-> configuration,
                 metrics |-> metrics, predictions |-> predictions]
    IN
    /\ calls' = calls + 1
    /\ disk' = disk
    /\ IF ~({"dataset", "config"} \subseteq DOMAIN configuration)
       THEN \* configuration[...] raises before anything is looked up
            /\ reports_' = reports_
            /\ last' = [op |-> "addRecord", args |-> args,
                        raised |-> "KeyError", ru |-> 0, existed |-> FALSE]
            /\ failed' = [happened |-> TRUE, before |-> reports_]
            /\ UNCHANGED <<firstUnit, firstSeen>>
       ELSE LET got == getReportUnit(reports_, configuration.dataset,
                                     configuration.config)
                pair == <<configuration.dataset, configuration.config>>
                existed == str(partition) \in DOMAIN got.reports[got.ru].df_
            IN
            /\ Remember(pair, got.ru)
            /\ IF ~({"train", "test"} \subseteq DOMAIN metrics)
               THEN \* metrics[...] raises after the unit was looked up
                    /\ reports_' = got.reports
                    /\ last' = [op |-> "addRecord", args |-> args,
                                raised |-> "KeyError", ru |-> got.ru,
                                existed |-> existed]
                    /\ failed' = [happened |-> TRUE, before |-> reports_]
               ELSE /\ reports_' =
                         [got.reports EXCEPT ![got.ru] =
                             StoreRecord(@, partition,
                                         dataframe_row(best_params, metrics),
                                         best_model, predictions)]
                    /\ last' = [op |-> "addRecord", args |-> args,
                                raised |-> "none", ru |-> got.ru,
                                existed |-> existed]
                    /\ failed' = failed

GetReportUnit(dataset_name, configuration_name) ==
    LET got == getReportUnit(reports_, dataset_name, configuration_name) IN
    /\ calls' = calls + 1
    /\ disk' = disk
    /\ reports_' = got.reports
    /\ failed' = failed
    /\ Remember(<<dataset_name, configuration_name>>, got.ru)
    /\ last' = [op |-> "getReportUnit",
                args |-> [dataset_name |-> dataset_name,
                          configuration_name |-> configuration_name],
                raised |-> "none", ru |-> got.ru, existed |-> FALSE]

-----------------------------------------------------------------------------
(* pandas: DataFrame, iloc column slices, mean and std *)

\* the keys of the row that are not yet columns, in the row's order
RECURSIVE NewKeys(_, _)
NewKeys(cols, row) ==
    IF Len(row) = 0 THEN <<>>
    ELSE LET k == row[1][1]
             rest == NewKeys(cols, SubSeq(row, 2, Len(row)))
         IN  IF \E i \in 1..Len(cols) : cols[i] = k THEN rest ELSE <<k>> \o rest

\* the columns of DataFrame(rows): every key, in order of first appearance
RECURSIVE Columns(_, _)
Columns(cols, rows) ==
    IF Len(rows) = 0 THEN cols
    ELSE Columns(cols \o NewKeys(cols, rows[1]), SubSeq(rows, 2, Len(rows)))

Cell(row, k) ==
    IF HasKey(row, k)
    THEN row[CHOOSE i \in 1..Len(row) : row[i][1] = k][2]
    ELSE NaN

\* pd.DataFrame(list of rows): a RangeIndex 0..n-1, NaN where a row lacks a column
DataFrame(rows) ==
    LET cols == Columns(<<>>, rows) IN
    [columns |-> cols,
     index |-> [i \in 1..Len(rows) |-> i - 1],
     data |-> [i \in 1..Len(rows) |->
                  [j \in 1..Len(cols) |-> Cell(rows[i], cols[j])]]]

\* a slice bound of Python: a negative bound counts from the end, all are clamped
SliceBound(i, n) == IF i < 0 THEN Max2(i + n, 0) ELSE Min2(i, n)

RECURSIVE Range(_, _, _)
Range(lo, hi, step) == IF lo >= hi THEN <<>> ELSE <<lo>> \o Range(lo + step, hi, step)

\* the 0-based column positions of df.iloc[:, start:stop:step] on n columns
iloc(n, start, stop, step) == Range(SliceBound(start, n), SliceBound(stop, n), step)

\* the numbers of column j (0-based) of the frame, NaN cells skipped
RECURSIVE Numbers(_, _)
Numbers(data, j) ==
    IF Len(data) = 0 THEN <<>>
    ELSE LET c == data[1][j + 1]
             rest == Numbers(SubSeq(data, 2, Len(data)), j)
         IN  IF c.kind = "int" THEN <<c.val>> \o rest ELSE rest

RECURSIVE Sum(_)
Sum(xs) == IF Len(xs) = 0 THEN 0 ELSE xs[1] + Sum(SubSeq(xs, 2, Len(xs)))

Squares(xs) == [i \in 1..Len(xs) |-> xs[i] * xs[i]]

Abs(x) == IF x < 0 THEN 0 - x ELSE x

RECURSIVE Gcd(_, _)
Gcd(a, b) == IF b = 0 THEN a ELSE Gcd(b, a % b)

\* the number (num/den)^(1/root), in lowest terms
Rational(num, den, root) ==
    LET g == Gcd(Abs(num), den) IN
    [nan |-> FALSE, num |-> num \div g, den |-> den \div g, root |-> root]

NaNStat == [nan |-> TRUE, num |-> 0, den |-> 1, root |-> 1]

\* Series.mean(): the mean of the numbers, NaN when there is none
mean(xs) == IF Len(xs) = 0 THEN NaNStat ELSE Rational(Sum(xs), Len(xs), 1)

\* Series.std(): the sample standard deviation (n - 1), NaN below two numbers
std(xs) ==
    LET n == Len(xs) IN
    IF n < 2 THEN NaNStat
    ELSE Rational(n * Sum(Squares(xs)) - Sum(xs) * Sum(xs), n * (n - 1), 2)

\* series[labels]: for each label in turn, the entries carrying it
RECURSIVE SelectLabels(_, _)
SelectLabels(series, labels) ==
    IF Len(labels) = 0 THEN <<>>
    ELSE SelectSeq(series, LAMBDA e : e[1] = labels[1])
         \o SelectLabels(series, SubSeq(labels, 2, Len(labels)))

\* list(sum(zip(a, b), ())): a1, b1, a2, b2, ...
RECURSIVE Interleave(_, _)
Interleave(a, b) ==
    IF Len(a) = 0 \/ Len(b) = 0 THEN <<>>
    ELSE <<a[1], b[1]>> \o Interleave(SubSeq(a, 2, Len(a)), SubSeq(b, 2, Len(b)))

-----------------------------------------------------------------------------
(* Results.createSummary *)

TimeColumns == 4

\* the summary row of the columns cols of df
summary_row(df, cols, avg_index, std_index) ==
    LET avg == [i \in 1..Len(cols) |-> <<avg_index[i], mean(Numbers(df.data, cols[i]))>>]
        sd == [i \in 1..Len(cols) |-> <<std_index[i], std(Numbers(df.data, cols[i]))>>]
        row == avg \o sd
        first == SubSeq(Keys(row), 1, Len(avg_index))
        second == SubSeq(Keys(row), Len(std_index) + 1, Len(row))
    IN  SelectLabels(row, Interleave(first, second))

train_columns(df, avg_index) ==
    LET n_parameters == Len(df.columns) - Len(avg_index) * 2 - TimeColumns IN
    iloc(Len(df.columns), n_parameters, Len(df.columns) - TimeColumns, 2)

\* a test slice that starts where the train slice starts
test_columns_unshifted(df, avg_index) ==
    LET n_parameters == Len(df.columns) - Len(avg_index) * 2 - TimeColumns IN
    iloc(Len(df.columns), n_parameters, Len(df.columns) - TimeColumns, 2)

test_columns(df, avg_index) ==
    LET n_parameters == Len(df.columns) - Len(avg_index) * 2 - TimeColumns IN
    iloc(Len(df.columns), n_parameters + 1, Len(df.columns) - TimeColumns, 2)

\* assigning an index of another length raises ValueError
createSummary(df, avg_index, std_index) ==
    LET train == train_columns(df, avg_index)
        test == test_columns(df, avg_index)
    IN  IF \/ Len(train) # Len(avg_index) \/ Len(train) # Len(std_index)
           \/ Len(test) # Len(avg_index) \/ Len(test) # Len(std_index)
        THEN [raised |-> "ValueError", train |-> <<>>, test |-> <<>>]
        ELSE [raised |-> "none",
              train |-> summary_row(df, train, avg_index, std_index),
              test |-> summary_row(df, test, avg_index, std_index)]

-----------------------------------------------------------------------------
(* Results.saveResults *)

NoDisk ==
    [saved |-> FALSE, raised |-> "none", folders |-> {}, csv |-> <<>>,
     files |-> {}, train_rows |-> <<>>, test_rows |-> <<>>,
     summary_index |-> <<>>, train_summary |-> <<>>, test_summary |-> <<>>]

\* the rows of a unit in the order of sorted(report.df_.items())
SortedRows(report) ==
    LET ks == sorted(DOMAIN report.df_) IN [i \in 1..Len(ks) |-> report.df_[ks[i]]]

UnitName(report) == Join(report.dataset_) \o "-" \o report.configuration_

\* a summary index that keeps the dataset name as it is
SummaryNameUnstripped(report) == Join(report.dataset_) \o "-" \o report.configuration_

SummaryName(report) == Join(strip(report.dataset_)) \o "-" \o report.configuration_

ModelFiles(report) ==
    {"models/" \o UnitName(report) \o "." \o Join(part) : part \in DOMAIN report.models_}

\* the test file is written only when predictions['test'] is not None
PredictionFiles(report) ==
    {"predictions/train_" \o UnitName(report) \o "." \o Join(part) :
        part \in DOMAIN report.predictions_}
    \cup
    {"predictions/test_" \o UnitName(report) \o "." \o Join(part) :
        part \in {q \in DOMAIN report.predictions_ : report.predictions_[q].test # <<>>}}

\* the body of "for report in self.reports_", from unit i on; it stops at
\* the first exception
RECURSIVE SaveUnits(_, _, _, _)
SaveUnits(d, i, avg_index, std_index) ==
    IF i > Len(reports_) \/ d.raised # "none" THEN d
    ELSE LET report == reports_[i]
             name == UnitName(report)
             df == DataFrame(SortedRows(report))
             sm == createSummary(df, avg_index, std_index)
             written == [d EXCEPT !.folders = @ \cup {name},
                                  !.csv = Append(@, [name |-> name, df |-> df])]
         IN  IF name \in d.folders
             THEN [d EXCEPT !.raised = "OSError"]
             ELSE IF sm.raised # "none"
             THEN [written EXCEPT !.raised = sm.raised]
             ELSE SaveUnits(
                    [written EXCEPT
                        !.train_rows = Append(@, sm.train),
                        !.test_rows = Append(@, sm.test),
                        !.summary_index = Append(@, SummaryName(report)),
                        !.files = @ \cup ModelFiles(report) \cup PredictionFiles(report)],
                    i + 1, avg_index, std_index)

\* pd.concat(rows, axis=1).transpose() with index = summary_index
SummaryTable(rows, summary_index) ==
    [columns |-> Keys(rows[1]),
     index |-> summary_index,
     data |-> [i \in 1..Len(rows) |-> [j \in 1..Len(rows[i]) |-> rows[i][j][2]]]]

\* folder_exists: the experiment folder named after the current second is
\* already there
SaveResults(metrics_names, folder_exists) ==
    LET avg_index == [i \in 1..Len(metrics_names) |-> metrics_names[i] \o "_mean"]
        std_index == [i \in 1..Len(metrics_names) |-> metrics_names[i] \o "_std"]
        start == [NoDisk EXCEPT !.saved = TRUE]
        d == SaveUnits(start, 1, avg_index, std_index)
        args == [metrics_names |-> metrics_names, folder_exists |-> folder_exists]
    IN
    /\ calls' = calls + 1
    /\ UNCHANGED <<reports_, firstUnit, firstSeen, failed>>
    /\ IF folder_exists
       THEN /\ disk' = [start EXCEPT !.raised = "OSError"]
            /\ last' = [op |-> "saveResults", args |-> args,
                        raised |-> "OSError", ru |-> 0, existed |-> FALSE]
       ELSE IF d.raised # "none"
       THEN /\ disk' = d
            /\ last' = [op |-> "saveResults", args |-> args,
                        raised |-> d.raised, ru |-> 0, existed |-> FALSE]
       ELSE IF Len(d.train_rows) = 0
       THEN \* pd.concat of an empty list raises ValueError
            /\ disk' = [d EXCEPT !.raised = "ValueError"]
            /\ last' = [op |-> "saveResults", args |-> args,
                        raised |-> "ValueError", ru |-> 0, existed |-> FALSE]
       ELSE /\ disk' = [d EXCEPT
                          !.train_summary = <<SummaryTable(d.train_rows, d.summary_index)>>,
                          !.test_summary = <<SummaryTable(d.test_rows, d.summary_index)>>]
            /\ last' = [op |-> "saveResults", args |-> args,
                        raised |-> "none", ru |-> 0, existed |-> FALSE]

-----------------------------------------------------------------------------
(* the state after Results() *)

Init ==
    /\ reports_ = <<>>
    /\ last = [op |-> "init", args |-> <<>>, raised |-> "none", ru |-> 0,
               existed |-> FALSE]
    /\ disk = NoDisk
    /\ calls = 0
    /\ firstUnit = <<>>
    /\ firstSeen = <<>>
    /\ failed = [happened |-> FALSE, before |-> <<>>]

-----------------------------------------------------------------------------
(* The arguments the callers pass *)

Wine == <<"w">>
Iris == <<"i">>
SpacedIris == <<" ", "i">>

Configuration(dataset_name, config_name) ==
    [dataset |-> dataset_name, config |-> config_name]

Predictions1 == [train |-> <<0, 1>>, test |-> <<<<1>>>>]
\* a partition without test set: predictions['test'] is None
Predictions2 == [train |-> <<1, 1>>, test |-> <<>>]

\* metrics of one run: the score acc and the two times, for train and test
Metrics(acc_train, acc_test) ==
    [train |-> << <<"acc_train", IntValue(acc_train)>>,
                  <<"cv_time_train", IntValue(5)>>,
                  <<"refit_time_train", IntValue(7)>> >>,
     test |-> << <<"acc_test", IntValue(acc_test)>>,
                 <<"cv_time_test", IntValue(6)>>,
                 <<"refit_time_test", IntValue(8)>> >>]

\* the same with a second score, f1
Metrics2(acc_train, acc_test) ==
    [train |-> << <<"acc_train", IntValue(acc_train)>>,
                  <<"f1_train", IntValue(acc_train - 10)>>,
                  <<"cv_time_train", IntValue(5)>>,
                  <<"refit_time_train", IntValue(7)>> >>,
     test |-> << <<"acc_test", IntValue(acc_test)>>,
                 <<"f1_test", IntValue(acc_test - 10)>>,
                 <<"cv_time_test", IntValue(6)>>,
                 <<"refit_time_test", IntValue(8)>> >>]

Payload(best_params, best_model, metrics, predictions) ==
    [best_params |-> best_params, best_model |-> best_model,
     metrics |-> metrics, predictions |-> predictions]

ParamsC == << <<"C", IntValue(1)>> >>
ParamsGamma == << <<"gamma", IntValue(2)>> >>

PayloadA == Payload(ParamsC, "m1", Metrics(80, 70), Predictions1)
PayloadB == Payload(ParamsC, "m2", Metrics(90, 75), Predictions2)
\* other hyperparameter names than PayloadA
PayloadOtherParams == Payload(ParamsGamma, "m1", Metrics(80, 70), Predictions1)
\* metrics without 'test', without 'train'
PayloadNoTest ==
    Payload(ParamsC, "m1", [train |-> Metrics(80, 70).train], Predictions1)
PayloadNoTrain ==
    Payload(ParamsC, "m1", [test |-> Metrics(80, 70).test], Predictions1)
AddRecordOf(partition, configuration, pl) ==
    AddRecord(partition, pl.best_params, pl.best_model, configuration,
              pl.metrics, pl.predictions)

-----------------------------------------------------------------------------
(* An experiment: records are added, then the results are saved *)

MaxCalls == 3

Partitions == {IntPartition(2), IntPartition(10), StrPartition(<<"2">>)}
Configurations ==
    {Configuration(Wine, "c"), Configuration(SpacedIris, "c"), Configuration(Iris, "c")}
Payloads == {PayloadA, PayloadB}
MetricsNames == {<<"acc">>}

Ingest ==
    /\ ~disk.saved
    /\ calls < MaxCalls
    /\ \E partition \in Partitions, configuration \in Configurations, pl \in Payloads :
          AddRecordOf(partition, configuration, pl)

Save ==
    /\ ~disk.saved
    /\ \E metrics_names \in MetricsNames, folder_exists \in BOOLEAN :
          SaveResults(metrics_names, folder_exists)

Next == Ingest \/ Save

Spec == Init /\ [][Next]_vars

-----------------------------------------------------------------------------
(* Lookups by getReportUnit, directly and through addRecord *)

MaxLookupCalls == 3

LookupDatasets == {Wine, SpacedIris}
LookupConfigs == {"c", "d"}
LookupConfigurations ==
    {Configuration(d, c) : d \in LookupDatasets, c \in LookupConfigs}
    \cup {[dataset |-> Wine], [config |-> "c"]}

Lookup ==
    /\ calls < MaxLookupCalls
    /\ \E d \in LookupDatasets, c \in LookupConfigs : GetReportUnit(d, c)

IngestLookup ==
    /\ calls < MaxLookupCalls
    /\ \E configuration \in LookupConfigurations, pl \in {PayloadA, PayloadNoTest} :
          AddRecordOf(IntPartition(2), configuration, pl)

NextLookup == Lookup \/ IngestLookup

SpecLookup == Init /\ [][NextLookup]_vars

-----------------------------------------------------------------------------
(* Records that break the caller's contract *)

MaxContractCalls == 2

ContractPartitions == {IntPartition(2), IntPartition(10)}
ContractConfigurations ==
    {Configuration(Wine, "c"), Configuration(SpacedIris, "c"),
     [dataset |-> Wine], [config |-> "c"]}
ContractPayloads ==
    {PayloadA, PayloadOtherParams, PayloadNoTest, PayloadNoTrain}

IngestContract ==
    /\ ~disk.saved
    /\ calls < MaxContractCalls
    /\ \E partition \in ContractPartitions,
          configuration \in ContractConfigurations, pl \in ContractPayloads :
          AddRecordOf(partition, configuration, pl)

NextContract == IngestContract \/ Save

SpecContract == Init /\ [][NextContract]_vars

-----------------------------------------------------------------------------
(* The row of one record: hyperparameters and metrics of every shape *)

MaxRowCalls == 1

RowParamNames == {"a", "b"}
RowParamValues ==
    {IntValue(1),
     Dict(<< <<"x", IntValue(2)>>, <<"y", IntValue(3)>> >>),
     Dict(<< <<"a", IntValue(2)>> >>),
     OrderedDictValue(<< <<"x", IntValue(2)>>, <<"y", IntValue(3)>> >>)}

RowBestParams ==
    {<<>>}
    \cup {<< <<n, v>> >> : n \in RowParamNames, v \in RowParamValues}
    \cup {<< <<n[1], v[1]>>, <<n[2], v[2]>> >> :
            n \in {m \in RowParamNames \X RowParamNames : m[1] # m[2]},
            v \in RowParamValues \X RowParamValues}

RowMetrics ==
    {[train |-> <<>>, test |-> <<>>],
     \* train and test under the same names
     [train |-> << <<"acc", IntValue(90)>>, <<"f1", IntValue(80)>> >>,
      test |-> << <<"acc", IntValue(85)>>, <<"f1", IntValue(75)>> >>],
     \* train and test under names of their own
     [train |-> << <<"acc_train", IntValue(90)>>, <<"f1_train", IntValue(80)>> >>,
      test |-> << <<"acc_test", IntValue(85)>>, <<"f1_test", IntValue(75)>> >>],
     \* test one entry shorter than train
     [train |-> << <<"acc_train", IntValue(90)>>, <<"f1_train", IntValue(80)>> >>,
      test |-> << <<"acc_test", IntValue(85)>> >>],
     \* without 'test', without 'train'
     [train |-> << <<"acc_train", IntValue(90)>> >>],
     [test |-> << <<"acc_test", IntValue(85)>> >>]}

IngestRow ==
    /\ calls < MaxRowCalls
    /\ \E best_params \in RowBestParams, metrics \in RowMetrics :
          AddRecord(IntPartition(2), best_params, "m1", Configuration(Wine, "c"),
                    metrics, Predictions1)

SpecRow == Init /\ [][IngestRow]_vars

-----------------------------------------------------------------------------
(* The summary of one unit: tables of several widths, one or two metric names *)

MaxSummaryCalls == 3

SummaryPartitions == {IntPartition(1), IntPartition(2), IntPartition(3)}

\* a record without the four time columns
PayloadNoTimes ==
    Payload(ParamsC, "m1",
            [train |-> SubSeq(Metrics(80, 70).train, 1, 1),
             test |-> SubSeq(Metrics(80, 70).test, 1, 1)],
            Predictions1)

SummaryPayloads ==
    {PayloadA, PayloadB,
     Payload(ParamsC, "m1", Metrics(100, 80), Predictions1),
     Payload(<<>>, "m1", Metrics2(80, 70), Predictions1),
     PayloadNoTimes}

SummaryMetricsNames == {<<"acc">>, <<"acc", "f1">>}

IngestSummary ==
    /\ ~disk.saved
    /\ calls < MaxSummaryCalls
    /\ \E partition \in SummaryPartitions, pl \in SummaryPayloads :
          AddRecordOf(partition, Configuration(Wine, "c"), pl)

SaveSummary ==
    /\ ~disk.saved
    /\ \E metrics_names \in SummaryMetricsNames, folder_exists \in BOOLEAN :
          SaveResults(metrics_names, folder_exists)

NextSummary == IngestSummary \/ SaveSummary

SpecSummary == Init /\ [][NextSummary]_vars

-----------------------------------------------------------------------------
(* The claims *)

AddedOk == last.op = "addRecord" /\ last.raised = "none"
SavedOk == last.op = "saveResults" /\ last.raised = "none"

\* the pair the last call looked up
LookedUpPair ==
    IF last.op = "getReportUnit"
    THEN <<last.args.dataset_name, last.args.configuration_name>>
    ELSE <<last.args.configuration.dataset, last.args.configuration.config>>

\* C1: the store holds at most one unit per (dataset, configuration) pair,
\* it holds exactly as many units as pairs were ever looked up (a repeated
\* lookup adds none), and every lookup returns the unit that the first
\* lookup of that pair returned, which carries that pair.
C1_OneUnitPerPair ==
    /\ \A i, j \in 1..Len(reports_) :
          (/\ reports_[i].dataset_ = reports_[j].dataset_
           /\ reports_[i].configuration_ = reports_[j].configuration_) => i = j
    /\ Len(reports_) = Cardinality(DOMAIN firstUnit)
    /\ last.ru # 0 =>
          /\ last.ru = firstUnit[LookedUpPair]
          /\ reports_[last.ru].dataset_ = LookedUpPair[1]
          /\ reports_[last.ru].configuration_ = LookedUpPair[2]

\* the first pair is looked up again after a second pair got its unit
C1_Witness ==
    /\ last.op = "getReportUnit"
    /\ calls = 3
    /\ Len(reports_) = 2
    /\ last.ru = 1
    /\ firstSeen[1] = LookedUpPair

Malformed(metrics) ==
    \/ ~({"train", "test"} \subseteq DOMAIN metrics)
    \/ Len(metrics.train) # Len(metrics.test)

\* C2: an addRecord whose metrics lack 'train' or 'test', or whose train and
\* test metrics differ in length, raises and stores no row for its partition.
C2_FailsFast ==
    (/\ last.op = "addRecord"
     /\ {"dataset", "config"} \subseteq DOMAIN last.args.configuration
     /\ Malformed(last.args.metrics))
    => /\ last.raised # "none"
       /\ ~last.existed =>
             str(last.args.partition) \notin DOMAIN reports_[last.ru].df_

\* the units that held a row before the addRecord call that failed
IngestedBefore == {i \in 1..Len(failed.before) : DOMAIN failed.before[i].df_ # {}}

\* the units that hold a row
Ingested == {i \in 1..Len(reports_) : DOMAIN reports_[i].df_ # {}}

Summarizable(report, metrics_names) ==
    createSummary(DataFrame(SortedRows(report)), metrics_names, metrics_names).raised
        = "none"

\* C3: an addRecord call that raises leaves the units ingested before it as
\* they were, and a saveResults after it (into a fresh folder) returns and
\* has written the table of each of these units, provided every unit that
\* holds rows can be summarised on its own.
C3_SaveAfterFailure ==
    /\ (last.op = "addRecord" /\ last.raised # "none") =>
          \A i \in 1..Len(failed.before) : reports_[i] = failed.before[i]
    /\ (/\ last.op = "saveResults"
        /\ ~last.args.folder_exists
        /\ failed.happened
        /\ IngestedBefore # {}
        /\ \A i \in Ingested : Summarizable(reports_[i], last.args.metrics_names))
       => /\ last.raised = "none"
          /\ \A i \in IngestedBefore :
                \E t \in 1..Len(disk.csv) :
                   /\ disk.csv[t].name = UnitName(failed.before[i])
                   /\ disk.csv[t].df = DataFrame(SortedRows(failed.before[i]))

\* C4: all rows of one unit have the same column names in the same order.
C4_SameColumns ==
    \A i \in 1..Len(reports_) :
       \A k1, k2 \in DOMAIN reports_[i].df_ :
          Keys(reports_[i].df_[k1]) = Keys(reports_[i].df_[k2])

\* the string form of the partitions of the experiment
StringForm(partition) ==
    CASE partition = IntPartition(2) -> <<"2">>
      [] partition = IntPartition(10) -> <<"1", "0">>
      [] partition = StrPartition(<<"2">>) -> <<"2">>

\* the step is an addRecord for a partition whose string form is a key of
\* unit i already
ReAdds(i) ==
    /\ calls' = calls + 1
    /\ last'.op = "addRecord"
    /\ reports_[i].dataset_ = last'.args.configuration.dataset
    /\ reports_[i].configuration_ = last'.args.configuration.config
    /\ StringForm(last'.args.partition) \in DOMAIN reports_[i].df_

\* unit i has the record of the call under the key, and all the rest as before
Replaces(i) ==
    LET key == StringForm(last'.args.partition) IN
    /\ last'.raised = "none"
    /\ Len(reports_') = Len(reports_)
    /\ \A j \in 1..Len(reports_) : j # i => reports_'[j] = reports_[j]
    /\ DOMAIN reports_'[i].df_ = DOMAIN reports_[i].df_
    /\ DOMAIN reports_'[i].models_ = DOMAIN reports_[i].models_
    /\ DOMAIN reports_'[i].predictions_ = DOMAIN reports_[i].predictions_
    /\ reports_'[i].df_[key] =
          dataframe_row(last'.args.best_params, last'.args.metrics)
    /\ reports_'[i].models_[key] = last'.args.best_model
    /\ reports_'[i].predictions_[key] = last'.args.predictions
    /\ \A k \in DOMAIN reports_[i].df_ \ {key} :
          /\ reports_'[i].df_[k] = reports_[i].df_[k]
          /\ reports_'[i].models_[k] = reports_[i].models_[k]
          /\ reports_'[i].predictions_[k] = reports_[i].predictions_[k]

\* C5: an addRecord for a partition whose string form is already a key of
\* the unit raises nothing and replaces the row, the model and the
\* predictions under that key by those of the call; the unit gets no new
\* key, and every other key and every other unit stay as they were.
C5_LastWriteWins ==
    [][\A i \in 1..Len(reports_) : ReAdds(i) => Replaces(i)]_vars

\* partition "2" (a str) is re-added over partition 2 or "2" while the unit
\* holds partition 10 as well
C5_Witness ==
    /\ AddedOk
    /\ last.existed
    /\ last.args.partition = StrPartition(<<"2">>)
    /\ last.args.best_model = "m2"
    /\ DOMAIN reports_[last.ru].df_ = {<<"2">>, <<"1", "0">>}
    /\ reports_[last.ru].models_[<<"2">>] = "m2"
    /\ reports_[last.ru].models_[<<"1", "0">>] = "m1"

IsMapping(value) == value.kind \in {"dict", "OrderedDict"}

\* the hyperparameters with every mapping replaced by its entries
RECURSIVE Spliced(_)
Spliced(best_params) ==
    IF Len(best_params) = 0 THEN <<>>
    ELSE (IF IsMapping(best_params[1][2]) THEN best_params[1][2].items
          ELSE <<best_params[1]>>)
         \o Spliced(SubSeq(best_params, 2, Len(best_params)))

StoredRow == reports_[last.ru].df_[str(last.args.partition)]

\* C6: the stored row starts with the hyperparameters, each mapping replaced
\* by its entries in its place and order, each scalar with its name and value.
C6_Flattening ==
    AddedOk =>
       LET expected == Spliced(last.args.best_params) IN
       /\ Len(StoredRow) >= Len(expected)
       /\ SubSeq(StoredRow, 1, Len(expected)) = expected

\* C7: the stored row ends with the metrics, after the hyperparameter
\* columns: train entry i immediately followed by test entry i, in order,
\* each with its value.
C7_Interleaving ==
    AddedOk =>
       LET train == last.args.metrics.train
           test == last.args.metrics.test
           n == Min2(Len(train), Len(test))
           h == Len(StoredRow) - 2 * n
       IN  /\ h >= 0
           /\ SubSeq(StoredRow, 1, h) = AddParams(<<>>, last.args.best_params)
           /\ \A i \in 1..n : /\ StoredRow[h + 2 * i - 1] = train[i]
                              /\ StoredRow[h + 2 * i] = test[i]

\* the dataset names of the experiment without surrounding whitespace
Stripped(dataset_name) == IF dataset_name = SpacedIris THEN Iris ELSE dataset_name

SummaryIndexIs(table, label(_)) ==
    /\ Len(table.data) = Len(firstSeen)
    /\ Len(table.index) = Len(firstSeen)
    /\ \A i \in 1..Len(firstSeen) : table.index[i] = label(firstSeen[i])

PlainLabel(pair) == Join(pair[1]) \o "-" \o pair[2]
StrippedLabel(pair) == Join(Stripped(pair[1])) \o "-" \o pair[2]

\* C8 as stated: after a saveResults that returned, the train and the test
\* summary have one row per pair passed to addRecord, in the order of first
\* passing, indexed "{dataset}-{configuration}".
C8_IndexAsStated ==
    SavedOk => /\ SummaryIndexIs(disk.train_summary[1], PlainLabel)
               /\ SummaryIndexIs(disk.test_summary[1], PlainLabel)

\* C8 (amended): after a saveResults that returned, the train and the test
\* summary have one row per pair passed to addRecord, in the order of first
\* passing, indexed by the dataset name without its leading and trailing
\* whitespace, "-", and the configuration name.
C8_FirstSeenOrder ==
    SavedOk => /\ SummaryIndexIs(disk.train_summary[1], StrippedLabel)
               /\ SummaryIndexIs(disk.test_summary[1], StrippedLabel)

\* "w" was passed before " i": the summary reads w-c, i-c, which is neither
\* sorted nor the unstripped name
C8_Witness ==
    /\ SavedOk
    /\ firstSeen = << <<Wine, "c">>, <<SpacedIris, "c">> >>
    /\ disk.train_summary[1].index = <<"w-c", "i-c">>
    /\ disk.test_summary[1].index = <<"w-c", "i-c">>

\* the row the claim states for the frame: for metric i its mean and std over
\* the column at C - 2M - 4 + 2(i - 1) + offset, as name_mean, name_std
StatedRow(df, metrics_names, offset) ==
    [k \in 1..(2 * Len(metrics_names)) |->
        LET i == (k + 1) \div 2
            col == Len(df.columns) - 2 * Len(metrics_names) - 4 + 2 * (i - 1) + offset
            xs == Numbers(df.data, col)
        IN  IF k % 2 = 1 THEN <<metrics_names[i] \o "_mean", mean(xs)>>
            ELSE <<metrics_names[i] \o "_std", std(xs)>>]

\* createSummary returned for table t, and returned the stated rows
ReducedAsStated(t) ==
    /\ t <= Len(disk.train_rows)
    /\ t <= Len(disk.test_rows)
    /\ disk.train_rows[t] = StatedRow(disk.csv[t].df, last.args.metrics_names, 0)
    /\ disk.test_rows[t] = StatedRow(disk.csv[t].df, last.args.metrics_names, 1)

Wide(t) ==
    Len(disk.csv[t].df.columns) >= 2 * Len(last.args.metrics_names) + 4

\* the example: one score, train 80, 90, 100 and test 70, 75, 80 (in hundredths)
ExampleTable(t) ==
    /\ last.args.metrics_names = <<"acc">>
    /\ Len(disk.csv[t].df.columns) = 7
    /\ Len(disk.csv[t].df.data) = 3
    /\ {disk.csv[t].df.data[r][2].val : r \in 1..3} = {80, 90, 100}
    /\ {disk.csv[t].df.data[r][3].val : r \in 1..3} = {70, 75, 80}

ExampleRows(t) ==
    /\ disk.train_rows[t] =
          << <<"acc_mean", [nan |-> FALSE, num |-> 90, den |-> 1, root |-> 1]>>,
             <<"acc_std", [nan |-> FALSE, num |-> 100, den |-> 1, root |-> 2]>> >>
    /\ disk.test_rows[t] =
          << <<"acc_mean", [nan |-> FALSE, num |-> 75, den |-> 1, root |-> 1]>>,
             <<"acc_std", [nan |-> FALSE, num |-> 25, den |-> 1, root |-> 2]>> >>

\* C9 as stated: for every table handed to createSummary, of any width, the
\* reduction returns the stated train and test rows.  A table with fewer than
\* 2M + 4 columns has no column range [C-2M-4, C-4) to take them from.
C9_AnyWidth ==
    last.op = "saveResults" =>
       \A t \in 1..Len(disk.csv) : Wide(t) /\ ReducedAsStated(t)

\* C9 (amended): for every table of C >= 2M + 4 columns handed to
\* createSummary, the reduction returns for train and for test a row of 2M
\* entries m1_mean, m1_std, m2_mean, m2_std, ..., the train statistics over
\* the even-offset and the test statistics over the odd-offset columns of
\* [C-2M-4, C-4); on the example it gives mean 90 and std 10 for train and
\* mean 75 and std 5 for test (in hundredths).
C9_Reduction ==
    last.op = "saveResults" =>
       \A t \in 1..Len(disk.csv) :
          /\ Wide(t) => ReducedAsStated(t)
          /\ ExampleTable(t) => ExampleRows(t)

\* the example has been saved
C9_Witness ==
    /\ SavedOk
    /\ Len(disk.csv) = 1
    /\ ExampleTable(1)
    /\ ExampleRows(1)

\* C10: in every table written, the first column of a row (the index, as
\* to_csv writes it) is the partition key under which the row was added.
C10_FirstColumnIsPartition ==
    last.op = "saveResults" =>
       \A t \in 1..Len(disk.csv) :
          LET df == disk.csv[t].df
              report == reports_[t]
          IN  \A r \in 1..Len(df.index) :
                 LET key == DecimalDigits(df.index[r]) IN
                 /\ key \in DOMAIN report.df_
                 /\ df.data[r] = [j \in 1..Len(df.columns) |->
                                     Cell(report.df_[key], df.columns[j])]

====
